---------------------------- MODULE Spec2Model ----------------------------
(***************************************************************************)
(* The masking tab of fileskadis (src/src/fileskadis/ui/app.py) with the   *)
(* parts of Masker (src/src/fileskadis/core/masker.py) its handlers call.  *)
(*                                                                         *)
(* create_ui builds ONE FileskadisApp and binds its methods to the events  *)
(* of the Gradio components.  The fields of that object are the state of   *)
(* the redaction session; the values of the components (mask_file,         *)
(* mask_page, mask_type) are kept by Gradio per browser session and are    *)
(* handed to the handlers as inputs.                                       *)
(*                                                                         *)
(* Masker._apply_masks, Masker.redact and parse_page_range are functions   *)
(* of their arguments: each has a specification of its own, which starts   *)
(* with a call and ends with what the call returns.                        *)
(***************************************************************************)
EXTENDS Integers, Sequences, FiniteSets, TLC

VARIABLES
    sessions,      \* the browser sessions connected to the demo
    mask_file,     \* per session: value of the gr.File component
    mask_page,     \* per session: value of the gr.Slider component
    mask_type,     \* per session: value of the gr.Radio component
    mask_preview,  \* per session: the raster the gr.Image component shows
    queued,        \* per session: a mask_page.change event not yet handled
    current_pdf,   \* FileskadisApp._current_pdf
    current_page,  \* FileskadisApp._current_page
    regions,       \* FileskadisApp._regions
    base_image,    \* FileskadisApp._base_image
    click_start,   \* FileskadisApp._click_start
    masked_pdf,    \* the file temp_dir/masked.pdf
    last,          \* the handler that ran last, for whom, and the branch it returned from
    pc,            \* a call of a function: "call" before it runs, its name after
    call,          \* the arguments of the call
    returned       \* what the call returned

vars == <<sessions, mask_file, mask_page, mask_type, mask_preview, queued, current_pdf,
          current_page, regions, base_image, click_start, masked_pdf, last,
          pc, call, returned>>

\* The session and the demo it runs on.
demo == <<sessions, mask_file, mask_page, mask_type, mask_preview, queued, current_pdf,
          current_page, regions, base_image, click_start, masked_pdf, last>>

\* A call of a function outside any session.
called == <<pc, call, returned>>

app == <<current_pdf, current_page, regions, base_image, click_start>>

ui == <<mask_file, mask_page, mask_type>>

\* The components only handlers write to.
shown == <<mask_preview>>

---------------------------------------------------------------------------
(* Bounds of the model and constants of the program *)

\* Two browser sessions are enough to show what they share.
Sessions == {1, 2}

\* The slider offers 1..100 (app.py:325-331); the model offers 1..MaxSlider,
\* which is above the page count of every document of the model.
MaxSlider == 3

SliderMin == 1

\* The user draws at most MaxRegions rectangles on a page.
MaxRegions == 2

\* width > 5 and height > 5 (app.py:172)
MinSize == 5

\* Python's None, for a file, for an image and for a point.
None == "None"

NoImage == [doc |-> None, page |-> 0]

NoClick == <<>>

\* The files a user uploads: their page counts, and one that pdfium cannot
\* open.  (gr.File filters on the .pdf suffix, so validate_pdf passes.)
Readable == {"one.pdf", "two.pdf"}

Corrupt == {"bad.pdf"}

Docs == Readable \cup Corrupt

\* A file pdfium opens and finds no page in; no session uploads it, redact is
\* called on it.
Empty == {"empty.pdf"}

Openable == Readable \cup Empty

PageCount(doc) == IF doc = "empty.pdf" THEN 0 ELSE IF doc = "one.pdf" THEN 1 ELSE 2

\* The points a click can land on.  Between them lie differences of 5 (the
\* boundary) and of more than 5 in x, and of 0 and 7 in y; three pairs make
\* a rectangle that is large enough.  The first two lie on every raster, the
\* last two only on the wide ones.
Points == {<<1, 0>>, <<7, 7>>, <<12, 0>>, <<18, 7>>}

MaskTypes == {"blur", "black", "white"}

---------------------------------------------------------------------------
(* Masker and Separator, as far as the handlers use them *)

\* The raster pdfium renders for a page: identified by what was rendered.
Render(doc, page_num) == [doc |-> doc, page |-> page_num]

\* Separator.get_page_count returns, or raises when the file cannot be opened.
get_page_count_raises(pdf_file) == pdf_file \notin Openable

\* Masker.preview_page raises for a file it cannot open and for a page
\* outside 1..len(pdf).
preview_page_raises(pdf_file, page_num) ==
    \/ pdf_file \notin Openable
    \/ page_num < 1
    \/ page_num > PageCount(pdf_file)

\* Masker.render_scale: pixels per point.
render_scale == 2

\* The size of a page in points: the second page of two.pdf is narrow, every
\* other page is 10 wide and 4 high.
PageSize(doc, page_num) ==
    IF doc = "two.pdf" /\ page_num = 2 THEN <<4, 4>> ELSE <<10, 4>>

\* The size in pixels of a raster preview_page rendered with scale = 1.0.
Size(img) ==
    IF img = NoImage THEN <<0, 0>>
    ELSE <<render_scale * PageSize(img.doc, img.page)[1],
           render_scale * PageSize(img.doc, img.page)[2]>>

Region(x, y, width, height) == [x |-> x, y |-> y, width |-> width, height |-> height]

Min(a, b) == IF a < b THEN a ELSE b

Max(a, b) == IF a > b THEN a ELSE b

Abs(a) == IF a < 0 THEN -a ELSE a

\* Region.box: (x, y, x + width, y + height).
box(r) == <<r.x, r.y, r.x + r.width, r.y + r.height>>

\* The box _apply_masks works on: clamped to the image, left and top to at
\* least 0, right and bottom to at most the width and the height.
Clamp(b, size) == <<Max(0, b[1]), Max(0, b[2]), Min(size[1], b[3]), Min(size[2], b[4])>>

---------------------------------------------------------------------------
Init1 ==
    /\ mask_file = [s \in Sessions |-> None]
    /\ mask_page = [s \in Sessions |-> 1]
    /\ mask_type = [s \in Sessions |-> "blur"]
    /\ mask_preview = [s \in Sessions |-> NoImage]
    /\ queued = [s \in Sessions |-> "idle"]
    /\ current_pdf = None
    /\ current_page = 1
    /\ regions = <<>>
    /\ base_image = NoImage
    /\ click_start = NoClick
    /\ masked_pdf = "absent"
    /\ last = [fn |-> "init", s |-> 0, ret |-> ""]

\* No function is called on its own while the demo runs.
NoCall == pc = "idle" /\ call = <<>> /\ returned = <<>>

Init == Init1 /\ sessions = {1} /\ NoCall


---------------------------------------------------------------------------
(* The handlers of FileskadisApp.  Each takes the session s whose event it *)
(* serves and the component values Gradio passes it, and sets the fields   *)
(* of the app and `last'.                                                  *)

Returned(fn, s, ret) == last' = [fn |-> fn, s |-> s, ret |-> ret]

\* A handler returns an image (or None) for mask_preview.  The regions and
\* the corner marker drawn on it do not change its size: the model keeps
\* the raster it was drawn on.
Shows(s, img) == mask_preview' = [mask_preview EXCEPT ![s] = img]

\* _draw_regions_on_image, as undo, clear and the mode change call it.
Redrawn(pdf_file) == IF pdf_file # None /\ base_image # NoImage THEN base_image ELSE NoImage

\* A handler returns a value for the slider: Gradio sets the component and,
\* when that changes its value, fires its change event.
SliderOutput(s, value) ==
    /\ mask_page' = [mask_page EXCEPT ![s] = value]
    /\ queued' = [queued EXCEPT ![s] = IF value # mask_page[s] THEN "output" ELSE "idle"]

\* load_mask_pdf without the reset of the regions.
load_mask_pdf_keeps_regions(s, pdf_file) ==
    IF pdf_file = None
    THEN /\ UNCHANGED app
         /\ SliderOutput(s, 1)
         /\ Shows(s, NoImage)
         /\ Returned("load_mask_pdf", s, "No PDF uploaded")
    ELSE /\ current_pdf' = pdf_file
         /\ current_page' = 1
         /\ UNCHANGED regions
         /\ click_start' = NoClick
         /\ IF get_page_count_raises(pdf_file) \/ preview_page_raises(pdf_file, 1)
            THEN /\ UNCHANGED base_image
                 /\ SliderOutput(s, 1)
                 /\ Shows(s, NoImage)
                 /\ Returned("load_mask_pdf", s, "Error")
            ELSE /\ base_image' = Render(pdf_file, 1)
                 /\ SliderOutput(s, PageCount(pdf_file))
                 /\ Shows(s, Render(pdf_file, 1))
                 /\ Returned("load_mask_pdf", s, "Page")

\* load_mask_pdf returns (img, info, count, ""): the third value goes to
\* the slider mask_page (outputs of mask_file.change).
load_mask_pdf(s, pdf_file) ==
    IF pdf_file = None
    THEN /\ UNCHANGED app
         /\ SliderOutput(s, 1)
         /\ Shows(s, NoImage)
         /\ Returned("load_mask_pdf", s, "No PDF uploaded")
    ELSE /\ current_pdf' = pdf_file
         /\ current_page' = 1
         /\ regions' = <<>>
         /\ click_start' = NoClick
         /\ IF get_page_count_raises(pdf_file) \/ preview_page_raises(pdf_file, 1)
            THEN /\ UNCHANGED base_image
                 /\ SliderOutput(s, 1)
                 /\ Shows(s, NoImage)
                 /\ Returned("load_mask_pdf", s, "Error")
            ELSE /\ base_image' = Render(pdf_file, 1)
                 /\ SliderOutput(s, PageCount(pdf_file))
                 /\ Shows(s, Render(pdf_file, 1))
                 /\ Returned("load_mask_pdf", s, "Page")

\* change_mask_page without the reset of the regions.
change_mask_page_keeps_regions(s, pdf_file, page_num) ==
    IF pdf_file = None
    THEN /\ UNCHANGED app
         /\ Shows(s, NoImage)
         /\ Returned("change_mask_page", s, "No PDF")
    ELSE /\ current_page' = page_num
         /\ UNCHANGED regions
         /\ click_start' = NoClick
         /\ UNCHANGED current_pdf
         /\ IF get_page_count_raises(pdf_file) \/ preview_page_raises(pdf_file, page_num)
            THEN /\ UNCHANGED base_image
                 /\ Shows(s, NoImage)
                 /\ Returned("change_mask_page", s, "Error")
            ELSE /\ base_image' = Render(pdf_file, page_num)
                 /\ Shows(s, Render(pdf_file, page_num))
                 /\ Returned("change_mask_page", s, "Page")

\* change_mask_page(page_num, pdf_file): the page named by the slider.
change_mask_page(s, pdf_file, page_num) ==
    IF pdf_file = None
    THEN /\ UNCHANGED app
         /\ Shows(s, NoImage)
         /\ Returned("change_mask_page", s, "No PDF")
    ELSE /\ current_page' = page_num
         /\ regions' = <<>>
         /\ click_start' = NoClick
         /\ UNCHANGED current_pdf
         /\ IF get_page_count_raises(pdf_file) \/ preview_page_raises(pdf_file, page_num)
            THEN /\ UNCHANGED base_image
                 /\ Shows(s, NoImage)
                 /\ Returned("change_mask_page", s, "Error")
            ELSE /\ base_image' = Render(pdf_file, page_num)
                 /\ Shows(s, Render(pdf_file, page_num))
                 /\ Returned("change_mask_page", s, "Page")

\* Rectangle with the first corner taken as the top left one.
Rectangle_first_corner(p1, p2) ==
    Region(p1[1], p1[2], Abs(p2[1] - p1[1]), Abs(p2[2] - p1[2]))

\* The rectangle of two corners (app.py:164-170).
Rectangle(p1, p2) ==
    Region(Min(p1[1], p2[1]), Min(p1[2], p2[2]), Abs(p2[1] - p1[1]), Abs(p2[2] - p1[2]))

\* app.py:172
LargeEnough(r) == r.width > MinSize /\ r.height > MinSize

\* handle_image_click that forgets the first corner only when it appends.
handle_image_click_keeps_corner(s, pdf_file, evt) ==
    IF pdf_file = None \/ base_image = NoImage
    THEN /\ UNCHANGED app
         /\ Shows(s, NoImage)
         /\ Returned("handle_image_click", s, "Load a PDF first")
    ELSE IF click_start = NoClick
    THEN /\ click_start' = evt
         /\ UNCHANGED <<current_pdf, current_page, regions, base_image>>
         /\ Shows(s, base_image)
         /\ Returned("handle_image_click", s, "First corner set")
    ELSE IF LargeEnough(Rectangle(click_start, evt))
    THEN /\ regions' = Append(regions, Rectangle(click_start, evt))
         /\ click_start' = NoClick
         /\ UNCHANGED <<current_pdf, current_page, base_image>>
         /\ Shows(s, base_image)
         /\ Returned("handle_image_click", s, "selected")
    ELSE /\ UNCHANGED app
         /\ Shows(s, base_image)
         /\ Returned("handle_image_click", s, "selected none")

handle_image_click(s, pdf_file, evt) ==
    IF pdf_file = None \/ base_image = NoImage
    THEN /\ UNCHANGED app
         /\ Shows(s, NoImage)
         /\ Returned("handle_image_click", s, "Load a PDF first")
    ELSE IF click_start = NoClick
    THEN /\ click_start' = evt
         /\ UNCHANGED <<current_pdf, current_page, regions, base_image>>
         /\ Shows(s, base_image)
         /\ Returned("handle_image_click", s, "First corner set")
    ELSE /\ regions' = IF LargeEnough(Rectangle(click_start, evt))
                       THEN Append(regions, Rectangle(click_start, evt))
                       ELSE regions
         /\ click_start' = NoClick
         /\ UNCHANGED <<current_pdf, current_page, base_image>>
         /\ Shows(s, base_image)
         /\ Returned("handle_image_click", s,
                     IF LargeEnough(Rectangle(click_start, evt))
                     THEN "selected" ELSE "selected none")

\* remove_last_region that returns at once when there is nothing to remove.
remove_last_region_early_return(s, pdf_file) ==
    /\ IF regions # <<>>
       THEN /\ regions' = SubSeq(regions, 1, Len(regions) - 1)
            /\ click_start' = NoClick
       ELSE UNCHANGED <<regions, click_start>>
    /\ UNCHANGED <<current_pdf, current_page, base_image>>
    /\ Shows(s, Redrawn(pdf_file))
    /\ Returned("remove_last_region", s,
                IF regions # <<>> THEN "popped" ELSE "nothing to pop")

remove_last_region(s, pdf_file) ==
    /\ regions' = IF regions # <<>> THEN SubSeq(regions, 1, Len(regions) - 1) ELSE regions
    /\ click_start' = NoClick
    /\ UNCHANGED <<current_pdf, current_page, base_image>>
    /\ Shows(s, Redrawn(pdf_file))
    /\ Returned("remove_last_region", s,
                IF regions # <<>> THEN "popped" ELSE "nothing to pop")

\* clear_regions that leaves the first corner of a rectangle in place.
clear_regions_keeps_corner(s, pdf_file) ==
    /\ regions' = <<>>
    /\ UNCHANGED <<current_pdf, current_page, base_image, click_start>>
    /\ Shows(s, Redrawn(pdf_file))
    /\ Returned("clear_regions", s, "Cleared")

clear_regions(s, pdf_file) ==
    /\ regions' = <<>>
    /\ click_start' = NoClick
    /\ UNCHANGED <<current_pdf, current_page, base_image>>
    /\ Shows(s, Redrawn(pdf_file))
    /\ Returned("clear_regions", s, "Cleared")

\* update_preview that starts the rectangle over.
update_preview_drops_corner(s, pdf_file) ==
    /\ click_start' = NoClick
    /\ UNCHANGED <<current_pdf, current_page, regions, base_image>>
    /\ Shows(s, Redrawn(pdf_file))
    /\ Returned("update_preview", s,
                IF pdf_file # None /\ base_image # NoImage THEN "regions" ELSE "")

update_preview(s, pdf_file) ==
    /\ UNCHANGED app
    /\ Shows(s, Redrawn(pdf_file))
    /\ Returned("update_preview", s,
                IF pdf_file # None /\ base_image # NoImage THEN "regions" ELSE "")


---------------------------------------------------------------------------
(* Masker.redact writes the output with Image.save(output, "PDF", ...)     *)
(* straight to output_path (masker.py:162-168, called at masker.py:91).    *)
(* The TemporaryDirectory of masker.py:74 is never written to.             *)

\* What can go wrong inside redact once the source has been opened.
Faults == {"none", "render", "encode"}

\* Image.save opens output_path for writing, which creates or truncates it,
\* and then encodes page after page.  When encoding fails, what was written
\* so far is at output_path; a Pillow that removes a file it created itself
\* leaves nothing when there was no file before.
SaveFailureLeaves(before) ==
    {"partial"} \cup (IF before = "absent" THEN {"absent"} ELSE {})

\* redact with an _images_to_pdf that saves whatever it is given.
redact_saves_empty(pdf_path, before, fault, left) ==
    IF pdf_path \notin Openable THEN [file |-> before, raised |-> TRUE]
    ELSE IF fault = "render" THEN [file |-> before, raised |-> TRUE]
    ELSE IF fault = "encode" THEN [file |-> left, raised |-> TRUE]
    ELSE [file |-> "complete", raised |-> FALSE]

\* The file at output_path after redact, and whether redact raised.
redact(pdf_path, before, fault, left) ==
    IF pdf_path \notin Openable THEN [file |-> before, raised |-> TRUE]
    ELSE IF fault = "render" THEN [file |-> before, raised |-> TRUE]
    ELSE IF PageCount(pdf_path) = 0 THEN [file |-> before, raised |-> TRUE]
    ELSE IF fault = "encode" THEN [file |-> left, raised |-> TRUE]
    ELSE [file |-> "complete", raised |-> FALSE]

apply_mask(s, pdf_file, fault, left) ==
    /\ UNCHANGED app
    /\ UNCHANGED shown
    /\ IF pdf_file = None
       THEN /\ UNCHANGED masked_pdf
            /\ Returned("apply_mask", s, "No PDF loaded")
       ELSE IF regions = <<>>
       THEN /\ UNCHANGED masked_pdf
            /\ Returned("apply_mask", s, "No regions selected")
       ELSE /\ masked_pdf' = redact(pdf_file, masked_pdf, fault, left).file
            /\ Returned("apply_mask", s,
                        IF redact(pdf_file, masked_pdf, fault, left).raised
                        THEN "Error" ELSE "Created")

---------------------------------------------------------------------------
(* The events of the masking tab (app.py:358-398).  A session whose        *)
(* mask_page.change event is under way waits for it.                       *)

Idle(s) == s \in sessions /\ queued[s] = "idle"

\* mask_file.change: the user uploads a file, or clears the component.
FileChange(s, f) ==
    /\ Idle(s)
    /\ f # mask_file[s]
    /\ mask_file' = [mask_file EXCEPT ![s] = f]
    /\ load_mask_pdf(s, f)
    /\ UNCHANGED <<called, sessions, mask_type, masked_pdf>>

\* The user moves the slider: its value changes, which fires mask_page.change.
SlideTo(s, n) ==
    /\ Idle(s)
    /\ n # mask_page[s]
    /\ mask_page' = [mask_page EXCEPT ![s] = n]
    /\ queued' = [queued EXCEPT ![s] = "input"]
    /\ UNCHANGED <<called, sessions, mask_file, mask_type, shown, app, masked_pdf, last>>

\* mask_page.change, fired by the user's input or by a handler's output.
MaskPageChange(s) ==
    /\ s \in sessions
    /\ queued[s] # "idle"
    /\ change_mask_page(s, mask_file[s], mask_page[s])
    /\ queued' = [queued EXCEPT ![s] = "idle"]
    /\ UNCHANGED <<called, sessions, ui, masked_pdf>>

\* mask_preview.select: a click on a pixel of the image the component shows.
Click(s, evt) ==
    /\ Idle(s)
    /\ evt[1] < Size(mask_preview[s])[1]
    /\ evt[2] < Size(mask_preview[s])[2]
    /\ Len(regions) < MaxRegions
    /\ handle_image_click(s, mask_file[s], evt)
    /\ UNCHANGED <<called, sessions, ui, queued, masked_pdf>>

\* mask_undo_btn.click
Undo(s) ==
    /\ Idle(s)
    /\ remove_last_region(s, mask_file[s])
    /\ UNCHANGED <<called, sessions, ui, queued, masked_pdf>>

\* mask_clear_btn.click
Clear(s) ==
    /\ Idle(s)
    /\ clear_regions(s, mask_file[s])
    /\ UNCHANGED <<called, sessions, ui, queued, masked_pdf>>

\* mask_type.change: the user picks another mask type.
SetMode(s, mode) ==
    /\ Idle(s)
    /\ mode # mask_type[s]
    /\ mask_type' = [mask_type EXCEPT ![s] = mode]
    /\ update_preview(s, mask_file[s])
    /\ UNCHANGED <<called, sessions, mask_file, mask_page, queued, masked_pdf>>

\* mask_apply_btn.click
Apply(s, fault, left) ==
    /\ Idle(s)
    /\ apply_mask(s, mask_file[s], fault, left)
    /\ UNCHANGED <<called, sessions, ui, queued>>

ApplySome(s) ==
    \E fault \in Faults : \E left \in SaveFailureLeaves(masked_pdf) :
        Apply(s, fault, left)

\* The events of session s, with their inputs drawn from the given sets.
Events(s, docs, points, modes) ==
    \/ \E f \in docs \cup {None} : FileChange(s, f)
    \/ \E n \in SliderMin..MaxSlider : SlideTo(s, n)
    \/ MaskPageChange(s)
    \/ \E evt \in points : Click(s, evt)
    \/ Undo(s)
    \/ Clear(s)
    \/ \E mode \in modes : SetMode(s, mode)
    \/ ApplySome(s)

Next == \E s \in Sessions : Events(s, Docs, Points, MaskTypes)

\* One browser session.
Spec == Init /\ [][Next]_vars

\* Two browser sessions on the same demo, their events interleaved.  Both
\* users work on the two-page file, click on two points and switch between
\* two mask types.
InitTwo == Init1 /\ sessions = Sessions /\ NoCall

NextTwo ==
    \E s \in Sessions :
        Events(s, {"two.pdf"}, {<<1, 0>>, <<18, 7>>}, {"blur", "black"})

SpecTwo == InitTwo /\ [][NextTwo]_vars


---------------------------------------------------------------------------
(* The session of the specification, read off the program: its document is *)
(* the file the handlers are given, the rest are the fields of the app.    *)

Loaded(s) == mask_file[s] \in Readable /\ base_image # NoImage

\* A mask_page.change event of s for a page the document does not have.
InvalidChangePage(s) ==
    /\ MaskPageChange(s)
    /\ Loaded(s)
    /\ mask_page[s] \notin 1..PageCount(mask_file[s])

\* C1: changePage(n) with n outside 1..pageCount fails with an error and
\* leaves regions, currentPage and pendingCorner as they were, from every
\* state with a document loaded.
C1_InvalidChangePageKeepsState ==
    [][\A s \in Sessions :
          InvalidChangePage(s) =>
              /\ last'.ret = "Error"
              /\ regions' = regions
              /\ current_page' = current_page
              /\ click_start' = click_start]_vars

\* The step that ends a load of s: the load itself when it fires no event,
\* else the mask_page.change its slider output fired.
LoadCompletes(s) ==
    \/ \E f \in Docs : FileChange(s, f) /\ queued'[s] = "idle"
    \/ MaskPageChange(s) /\ queued[s] = "output"

\* C2: after loadDocument(doc) and the events it triggers have run, the
\* session has currentPage = 1, no regions, no pending corner and the
\* render of page 1 of doc as its base raster.
C2_LoadResetsToPageOne ==
    [][\A s \in Sessions :
          LoadCompletes(s) /\ mask_file'[s] \in Readable =>
              /\ current_page' = 1
              /\ regions' = <<>>
              /\ click_start' = NoClick
              /\ base_image' = Render(mask_file'[s], 1)]_vars

\* C3: with a document loaded, 1 <= currentPage <= pageCount(document).
C3_CurrentPageInRange ==
    \A s \in sessions :
        Loaded(s) => current_page \in 1..PageCount(mask_file[s])

\* What session s holds: its document and the state of its redaction.
SessionState(s) == <<mask_file[s], current_page, regions, click_start, base_image>>

\* C4: an operation performed in one session leaves the state of every
\* other open session unchanged.
C4_SessionsShareNothing ==
    [][\A s \in sessions : \A t \in sessions \ {s} :
          Events(s, Docs, Points, MaskTypes) /\ mask_file[t] # None =>
              SessionState(t)' = SessionState(t)]_vars

\* C5: a commit that fails leaves no new or partially written file at the
\* output path.
C5_FailedCommitLeavesNoFile ==
    [][\A s \in Sessions :
          ApplySome(s) /\ last'.ret = "Error" => masked_pdf' = masked_pdf]_vars


\* A click of s that the handler accepts: a file is given and a raster is cached.
AcceptedClick(s, evt) ==
    Click(s, evt) /\ mask_file[s] # None /\ base_image # NoImage

\* C6: the second click, with pendingCorner = (x1,y1) and click point
\* (x2,y2), appends exactly Region(min(x1,x2), min(y1,y2), |x2-x1|, |y2-y1|)
\* at the end of regions when |x2-x1| > 5 and |y2-y1| > 5, and otherwise
\* leaves regions as they were.
C6_SecondClickAppendsRectangle ==
    [][\A s \in Sessions : \A evt \in Points :
          AcceptedClick(s, evt) /\ click_start # NoClick =>
              LET x1 == click_start[1]
                  y1 == click_start[2]
                  x2 == evt[1]
                  y2 == evt[2]
                  w == IF x2 >= x1 THEN x2 - x1 ELSE x1 - x2
                  h == IF y2 >= y1 THEN y2 - y1 ELSE y1 - y2
                  left == IF x1 <= x2 THEN x1 ELSE x2
                  top == IF y1 <= y2 THEN y1 ELSE y2
              IN  IF w > 5 /\ h > 5
                  THEN regions' = regions \o <<[x |-> left, y |-> top, width |-> w, height |-> h]>>
                  ELSE regions' = regions]_vars

\* C6, reached: the clicks (1,0) and (18,7), in either order, have
\* appended Region(1,0,17,7).
C6_Witness ==
    /\ last.fn = "handle_image_click"
    /\ last.ret = "selected"
    /\ regions = <<[x |-> 1, y |-> 0, width |-> 17, height |-> 7]>>

\* C7: a click with no pending corner records the point as the pending
\* corner and leaves regions unchanged; a click with a pending corner
\* clears it, whether or not a region was appended.
C7_ClicksAlternate ==
    [][\A s \in Sessions : \A evt \in Points :
          AcceptedClick(s, evt) =>
              IF click_start = NoClick
              THEN click_start' = evt /\ regions' = regions
              ELSE click_start' = NoClick]_vars

\* C7, reached: a second click that appended nothing has cleared the corner.
C7_Witness ==
    /\ last.fn = "handle_image_click"
    /\ last.ret = "selected none"
    /\ click_start = NoClick
    /\ regions = <<>>
    /\ base_image # NoImage

\* A page change of a session that has a file.
PageChanged == \E s \in Sessions : MaskPageChange(s) /\ mask_file[s] # None

\* An undo, a clear or any step that changes the region list.
RegionsMutated ==
    \/ regions' # regions
    \/ \E s \in Sessions : Undo(s) \/ Clear(s)

ModeChanged == \E s \in Sessions : \E mode \in MaskTypes : SetMode(s, mode)

\* C8 as stated: pendingCorner is None after every page change, every
\* mutation of the region list and every mask-mode change.
C8_CornerClearedAlsoByModeChange ==
    [][PageChanged \/ RegionsMutated \/ ModeChanged => click_start' = NoClick]_vars

\* C8, amended: pendingCorner is None after every page change and every
\* mutation of the region list (append by a completed click, undo, clear).
C8_CornerClearedByPageChangeAndMutation ==
    [][PageChanged \/ RegionsMutated => click_start' = NoClick]_vars

\* C8, reached: a clear has run on a loaded page.
C8_Witness ==
    /\ last.fn = "clear_regions"
    /\ click_start = NoClick
    /\ base_image # NoImage
    /\ current_page = 2

\* C9: setMode(mode) leaves regions, pendingCorner, currentPage and
\* baseRaster unchanged; only the mode changes.
C9_SetModeKeepsSession ==
    [][\A s \in Sessions : \A mode \in MaskTypes :
          SetMode(s, mode) =>
              /\ regions' = regions
              /\ click_start' = click_start
              /\ current_page' = current_page
              /\ base_image' = base_image
              /\ mask_type'[s] = mode]_vars

\* C9, reached: the mode was changed while a first corner was pending and
\* a region was selected, and both are still there.
C9_Witness ==
    /\ last.fn = "update_preview"
    /\ click_start # NoClick
    /\ regions # <<>>
    /\ \E s \in sessions : mask_type[s] = "white"

\* An undo of s on an empty region list.
UndoOnEmpty(s) == Undo(s) /\ regions = <<>>

\* C10 as stated: undo() on an empty region list raises no error and
\* changes nothing, also when a first corner is pending.
C10_UndoOnEmptyChangesNothing ==
    [][\A s \in Sessions :
          UndoOnEmpty(s) =>
              /\ last'.ret # "Error"
              /\ UNCHANGED <<regions, click_start, current_page, base_image>>]_vars

\* C10, amended: undo() on an empty region list raises no error and leaves
\* regions, currentPage and baseRaster unchanged; pendingCorner is None
\* afterwards.
C10_UndoOnEmptyKeepsAllButCorner ==
    [][\A s \in Sessions :
          UndoOnEmpty(s) =>
              /\ last'.ret # "Error"
              /\ UNCHANGED <<regions, current_page, base_image>>
              /\ click_start' = NoClick]_vars

\* C10, reached: an undo found nothing to remove on a loaded page.
C10_Witness ==
    /\ last.fn = "remove_last_region"
    /\ last.ret = "nothing to pop"
    /\ regions = <<>>
    /\ base_image # NoImage

---------------------------------------------------------------------------
\* A load or a page change of s that renders the page it was asked for.
Navigates(s) ==
    /\ (\E f \in Docs : FileChange(s, f)) \/ MaskPageChange(s)
    /\ last'.ret = "Page"

\* A commit of s that writes a document with the current page masked.
MasksCurrentPage(s) ==
    /\ ApplySome(s)
    /\ last'.ret = "Created"
    /\ current_page \in 1..PageCount(mask_file[s])

C20_BaseRasterIsCurrentPage ==
    \A s \in sessions :
        Loaded(s) => base_image = Render(mask_file[s], current_page)

---------------------------------------------------------------------------
(* Masker._apply_masks on pixels (masker.py:119-149).  An image is its     *)
(* width, its height and the value of every pixel, 0 for black and 255 for *)
(* white; pixel <<x, y>> is column x of row y, counted from 0.             *)

Black == 0

White == 255

Pixels(width, height) == (0..(width - 1)) \X (0..(height - 1))

\* What a page shows at a point: light on the first page, dark on the second.
Ink(doc, page_num, u, v) == 100 * (page_num % 2) + 20 + u + 10 * v

\* pdf[page_idx].render(scale).to_pil(): every point becomes scale x scale
\* pixels.
render(doc, page_num, scale) ==
    [width |-> scale * PageSize(doc, page_num)[1],
     height |-> scale * PageSize(doc, page_num)[2],
     px |-> [p \in Pixels(scale * PageSize(doc, page_num)[1],
                          scale * PageSize(doc, page_num)[2]) |->
                Ink(doc, page_num, p[1] \div scale, p[2] \div scale)]]

\* Image.new(mode, (width, height), value)
Uniform(width, height, value) ==
    [width |-> width, height |-> height, px |-> [p \in Pixels(width, height) |-> value]]

\* A box that only skips boxes of negative width or height.
Skipped_negative(b) == b[3] < b[1] \/ b[4] < b[2]

\* The boxes _apply_masks passes over.
Skipped(b) == b[3] <= b[1] \/ b[4] <= b[2]

\* crop and paste take the pixels from left to right - 1 and top to
\* bottom - 1.
InCrop(p, b) == b[1] <= p[1] /\ p[1] < b[3] /\ b[2] <= p[2] /\ p[2] < b[4]

\* ImageDraw.rectangle fills from left to right and top to bottom, both
\* ends included, as far as the image reaches.
InRectangle(p, b) == b[1] <= p[1] /\ p[1] <= b[3] /\ b[2] <= p[2] /\ p[2] <= b[4]

RECURSIVE RowSum(_, _, _, _)
RowSum(px, y, x, right) ==
    IF x >= right THEN 0 ELSE px[<<x, y>>] + RowSum(px, y, x + 1, right)

RECURSIVE BoxSum(_, _, _)
BoxSum(px, b, y) ==
    IF y >= b[4] THEN 0 ELSE RowSum(px, y, b[1], b[3]) + BoxSum(px, b, y + 1)

\* GaussianBlur with radius 30 on a crop this small: every pixel of the crop
\* becomes the mean of the crop.
Blurred(px, b) == BoxSum(px, b, b[2]) \div ((b[3] - b[1]) * (b[4] - b[2]))

\* A fill that is black for every mask type.
Colour_black(mode) == Black

\* color = "black" if mask_type == "black" else "white"
Colour(mode) == IF mode = "black" THEN Black ELSE White

\* One turn of the loop over the regions.
MaskRegion(result, region, mode) ==
    LET b == Clamp(box(region), <<result.width, result.height>>)
        blurred == Blurred(result.px, b)
    IN  IF Skipped(b) THEN result
        ELSE IF mode = "blur"
        THEN [result EXCEPT !.px = [p \in DOMAIN result.px |->
                 IF InCrop(p, b) THEN blurred ELSE result.px[p]]]
        ELSE [result EXCEPT !.px = [p \in DOMAIN result.px |->
                 IF InRectangle(p, b) THEN Colour(mode) ELSE result.px[p]]]

RECURSIVE MaskFrom(_, _, _, _)
MaskFrom(result, rs, i, mode) ==
    IF i > Len(rs) THEN result
    ELSE MaskFrom(MaskRegion(result, rs[i], mode), rs, i + 1, mode)

apply_masks(img, rs, mode) == MaskFrom(img, rs, 1, mode)

\* The images _apply_masks is called on: the two kinds of page, a white and
\* a black image.
Images ==
    {render("one.pdf", 1, render_scale), render("two.pdf", 2, render_scale),
     Uniform(8, 8, White), Uniform(8, 8, Black)}

\* The regions it is called with: two a session can draw (the second lies
\* off the narrow page), one that starts left of and above the image, one
\* that ends right of and below it, one without width, one of negative
\* height, one off every image and one a single row high.
TestRegions ==
    {Region(1, 0, 6, 7), Region(12, 0, 6, 7), Region(-2, -2, 5, 5), Region(5, 5, 30, 30),
     Region(3, 2, 0, 4), Region(2, 3, 4, -1), Region(25, 1, 3, 3), Region(0, 7, 8, 1)}

RegionLists(S) == UNION {[1..n -> S] : n \in 0..MaxRegions}

MaskCalls ==
    [img : Images, regions : RegionLists(TestRegions), mask_type : MaskTypes]

InitMasks ==
    /\ Init1 /\ sessions = {}
    /\ pc = "call"
    /\ call \in MaskCalls
    /\ returned = call.img

ApplyMasks ==
    /\ pc = "call"
    /\ pc' = "apply_masks"
    /\ returned' = apply_masks(call.img, call.regions, call.mask_type)
    /\ UNCHANGED <<call, demo>>

SpecMasks == InitMasks /\ [][ApplyMasks]_vars

\* The clamped boxes of the regions of the call that have a width and a
\* height.
EffectiveBoxes ==
    {b \in {Clamp(box(call.regions[i]), <<call.img.width, call.img.height>>) :
                i \in 1..Len(call.regions)} :
        b[3] - b[1] > 0 /\ b[4] - b[2] > 0}

StrictlyInside(p, b) == b[1] < p[1] /\ p[1] < b[3] /\ b[2] < p[2] /\ p[2] < b[4]

StrictlyOutside(p, b) == p[1] < b[1] \/ p[1] > b[3] \/ p[2] < b[2] \/ p[2] > b[4]

\* C15: in Black mode every pixel strictly inside the clamped box of a region
\* with width and height is black, and every pixel strictly outside all these
\* boxes is as in the input; in White mode the same with white.
C15_FillInsideKeepOutside ==
    pc = "apply_masks" /\ call.mask_type \in {"black", "white"} =>
        /\ returned.width = call.img.width /\ returned.height = call.img.height
        /\ DOMAIN returned.px = DOMAIN call.img.px
        /\ \A p \in DOMAIN call.img.px :
            /\ (\E b \in EffectiveBoxes : StrictlyInside(p, b)) =>
                   returned.px[p] = (IF call.mask_type = "black" THEN 0 ELSE 255)
            /\ (\A b \in EffectiveBoxes : StrictlyOutside(p, b)) =>
                   returned.px[p] = call.img.px[p]

\* A white fill on the black image, with pixels inside and outside the box.
C15_Witness ==
    /\ pc = "apply_masks"
    /\ call.mask_type = "white"
    /\ call.img = Uniform(8, 8, Black)
    /\ call.regions = <<Region(-2, -2, 5, 5)>>
    /\ returned.px[<<1, 1>>] = White
    /\ returned.px[<<5, 5>>] = Black

\* C16: when the region list is empty, or every region has a clamped box
\* without width or without height, the result equals the input, in every
\* mode.
C16_NothingToMaskIsIdentity ==
    pc = "apply_masks" /\ EffectiveBoxes = {} => returned = call.img

\* Two regions, neither with a box that has width and height.
C16_Witness ==
    /\ pc = "apply_masks"
    /\ call.regions = <<Region(3, 2, 0, 4), Region(25, 1, 3, 3)>>
    /\ call.mask_type = "black"
    /\ call.img = Uniform(8, 8, White)
    /\ returned = call.img

---------------------------------------------------------------------------
(* Masker.redact: the pages it hands to _images_to_pdf (masker.py:76-88),  *)
(* and with redact above the file it leaves.                               *)

\* The loop with the index of the page, counted from 0, looked up among the
\* keys.
RECURSIVE page_images_by_index(_, _, _, _)
page_images_by_index(pdf_path, page_regions, mode, page_idx) ==
    IF page_idx >= PageCount(pdf_path) THEN <<>>
    ELSE LET img == render(pdf_path, page_idx + 1, render_scale)
         IN  <<IF page_idx \in DOMAIN page_regions
               THEN apply_masks(img, page_regions[page_idx], mode)
               ELSE img>>
             \o page_images_by_index(pdf_path, page_regions, mode, page_idx + 1)

\* page_images, from page_idx on: every page rendered at render_scale, and
\* masked when its number, counted from 1, is a key of page_regions.
RECURSIVE page_images(_, _, _, _)
page_images(pdf_path, page_regions, mode, page_idx) ==
    IF page_idx >= PageCount(pdf_path) THEN <<>>
    ELSE LET page_num == page_idx + 1
             img == render(pdf_path, page_num, render_scale)
         IN  <<IF page_num \in DOMAIN page_regions
               THEN apply_masks(img, page_regions[page_num], mode)
               ELSE img>>
             \o page_images(pdf_path, page_regions, mode, page_idx + 1)

\* The sets of page numbers page_regions has as keys: pages of the document
\* and numbers no page has.
KeySets == {{}, {1}, {2}, {1, 2}, {0}, {3}, {0, 1}, {2, 3}}

\* Two regions a session can draw, the second off the narrow page, and one
\* that starts left of and above the page.
RedactRegions == {Region(1, 0, 6, 7), Region(12, 0, 6, 7), Region(-2, -2, 5, 5)}

RedactCalls ==
    [pdf_path : Openable \cup Corrupt, keys : KeySets,
     regions : RegionLists(RedactRegions), mask_type : MaskTypes,
     before : {"absent", "complete"}]

NoPages == [file |-> "absent", raised |-> FALSE, pages |-> <<>>]

InitRedact ==
    /\ Init1 /\ sessions = {}
    /\ pc = "call"
    /\ call \in RedactCalls
    /\ returned = NoPages

\* redact(pdf_path, page_regions, output_path, mask_type) with the regions of
\* the call under every key.
Redact ==
    /\ pc = "call"
    /\ pc' = "redact"
    /\ \E fault \in Faults : \E left \in SaveFailureLeaves(call.before) :
          LET out == redact(call.pdf_path, call.before, fault, left)
          IN  returned' =
                  [file |-> out.file, raised |-> out.raised,
                   pages |-> IF out.raised THEN <<>>
                             ELSE page_images(call.pdf_path, [k \in call.keys |-> call.regions],
                                              call.mask_type, 0)]
    /\ UNCHANGED <<call, demo>>

SpecRedact == InitRedact /\ [][Redact]_vars

\* C13: a commit that succeeds writes as many pages as the source has, in
\* the order of the source; page i is the masked raster of page i when i is
\* a key of page_regions and the unmodified raster of page i otherwise.
C13_EveryPageOnceInOrder ==
    pc = "redact" /\ ~returned.raised =>
        /\ returned.file = "complete"
        /\ Len(returned.pages) = PageCount(call.pdf_path)
        /\ \A i \in 1..Len(returned.pages) :
              returned.pages[i] =
                  IF i \in call.keys
                  THEN apply_masks(render(call.pdf_path, i, render_scale),
                                   call.regions, call.mask_type)
                  ELSE render(call.pdf_path, i, render_scale)

\* Two pages, the second one masked and the first one not, with a key no
\* page has.
C13_Witness ==
    /\ pc = "redact" /\ ~returned.raised
    /\ call.pdf_path = "two.pdf"
    /\ call.keys = {2, 3}
    /\ call.mask_type = "black"
    /\ call.regions = <<Region(-2, -2, 5, 5)>>
    /\ returned.pages[1] = render("two.pdf", 1, render_scale)
    /\ returned.pages[2] # render("two.pdf", 2, render_scale)

\* C17: a commit on a document without pages fails and leaves no output
\* document: the file at the output path is as it was.
C17_EmptyDocumentFails ==
    pc = "redact" /\ call.pdf_path \in Openable /\ PageCount(call.pdf_path) = 0 =>
        /\ returned.raised
        /\ returned.file = call.before
        /\ returned.pages = <<>>

\* redact has run on the empty file, with nothing at the output path.
C17_Witness ==
    /\ pc = "redact"
    /\ call.pdf_path = "empty.pdf"
    /\ call.before = "absent"
    /\ returned.raised
    /\ returned.file = "absent"

---------------------------------------------------------------------------
(* The preview and the commit of a session, on pixels.                     *)

\* scale = 1.0, as load_mask_pdf and change_mask_page pass it to
\* preview_page.
PreviewScale == 1

\* The masked raster under the outlines and labels of the preview of s:
\* _draw_regions_on_image masks a copy of the cached raster, which
\* preview_page rendered at render_scale * scale.
PreviewRaster(s) ==
    apply_masks(render(mask_preview[s].doc, mask_preview[s].page, render_scale * PreviewScale),
                regions, mask_type[s])

\* The pages a commit of s writes: apply_mask calls redact with
\* {self._current_page: self._regions} and the mask type of s.
CommitPages(s) ==
    page_images(mask_file[s], [k \in {current_page} |-> regions], mask_type[s], 0)

\* C14: with a document loaded and regions selected, the masked raster the
\* preview shows for the current page is the raster a commit writes for that
\* page, with the same regions and mask type.
C14_PreviewIsCommitRaster ==
    \A s \in sessions :
        Loaded(s) /\ regions # <<>> /\ mask_preview[s] # NoImage =>
            /\ current_page \in 1..Len(CommitPages(s))
            /\ CommitPages(s)[current_page] = PreviewRaster(s)

---------------------------------------------------------------------------
(* parse_page_range (separator.py:15-45).  A string is the sequence of its *)
(* characters.                                                             *)

\* The longest string the model parses.
MaxLen == 4

\* Two digits, the three characters of the syntax and a letter.
Chars == {"1", "2", "-", ",", " ", "x"}

Strings == UNION {[1..n -> Chars] : n \in 0..MaxLen}

\* max_pages: no page, fewer pages than the digits name, and more.
PageLimits == {0, 1, 2, 12}

IsDigit(c) == c \in {"0", "1", "2", "3", "4", "5", "6", "7", "8", "9"}

DigitValue(c) ==
    CASE c = "0" -> 0 [] c = "1" -> 1 [] c = "2" -> 2 [] c = "3" -> 3 [] c = "4" -> 4
      [] c = "5" -> 5 [] c = "6" -> 6 [] c = "7" -> 7 [] c = "8" -> 8 [] c = "9" -> 9

\* str.split(","): the pieces between the commas, empty ones included.
RECURSIVE split(_, _)
split(str, piece) ==
    IF str = <<>> THEN <<piece>>
    ELSE IF Head(str) = "," THEN <<piece>> \o split(Tail(str), <<>>)
    ELSE split(Tail(str), Append(piece, Head(str)))

RECURSIVE lstrip(_)
lstrip(str) == IF str # <<>> /\ Head(str) = " " THEN lstrip(Tail(str)) ELSE str

RECURSIVE rstrip(_)
rstrip(str) ==
    IF str # <<>> /\ str[Len(str)] = " " THEN rstrip(SubSeq(str, 1, Len(str) - 1)) ELSE str

\* str.strip()
strip(str) == rstrip(lstrip(str))

\* parts: the pieces stripped, without the empty ones.
parts(range_str) ==
    LET pieces == split(range_str, <<>>)
    IN  SelectSeq([k \in 1..Len(pieces) |-> strip(pieces[k])], LAMBDA part : part # <<>>)

\* The first index from i on that holds no digit, no space.
RECURSIVE AfterDigits(_, _)
AfterDigits(str, i) ==
    IF i <= Len(str) /\ IsDigit(str[i]) THEN AfterDigits(str, i + 1) ELSE i

RECURSIVE AfterSpaces(_, _)
AfterSpaces(str, i) ==
    IF i <= Len(str) /\ str[i] = " " THEN AfterSpaces(str, i + 1) ELSE i

\* int() of the digits str[i..j-1]
RECURSIVE Number(_, _, _)
Number(str, i, j) ==
    IF j <= i THEN 0 ELSE 10 * Number(str, i, j - 1) + DigitValue(str[j - 1])

\* re.match(r"(\d+)\s*-\s*(\d+)", part): the two groups, or no match.  The
\* pattern is anchored at the start of the part and may end anywhere in it.
match(part) ==
    LET d1 == AfterDigits(part, 1)
        s1 == AfterSpaces(part, d1)
        s2 == AfterSpaces(part, s1 + 1)
        d2 == AfterDigits(part, s2)
    IN  IF /\ d1 > 1
           /\ s1 <= Len(part) /\ part[s1] = "-"
           /\ d2 > s2
        THEN [ok |-> TRUE, start |-> Number(part, 1, d1), end |-> Number(part, s2, d2)]
        ELSE [ok |-> FALSE, start |-> 0, end |-> 0]

\* int(part) raises ValueError unless the part is digits only.
IsInt(part) == part # <<>> /\ AfterDigits(part, 1) = Len(part) + 1

\* The pages one part adds.
PagesOf(part, max_pages) ==
    IF \E k \in 1..Len(part) : part[k] = "-"
    THEN IF match(part).ok
         THEN {i - 1 : i \in {j \in match(part).start..match(part).end : 1 <= j /\ j <= max_pages}}
         ELSE {}
    ELSE IF IsInt(part) /\ 1 <= Number(part, 1, Len(part) + 1)
                        /\ Number(part, 1, Len(part) + 1) <= max_pages
         THEN {Number(part, 1, Len(part) + 1) - 1}
         ELSE {}

\* sorted(pages)
RECURSIVE sorted(_)
sorted(pages) ==
    IF pages = {} THEN <<>>
    ELSE LET least == CHOOSE i \in pages : \A j \in pages : i <= j
         IN  <<least>> \o sorted(pages \ {least})

parse_page_range(range_str, max_pages) ==
    sorted(UNION {PagesOf(parts(range_str)[k], max_pages) : k \in 1..Len(parts(range_str))})

InitParse ==
    /\ Init1 /\ sessions = {}
    /\ pc = "call"
    /\ call \in [range_str : Strings, max_pages : PageLimits]
    /\ returned = <<>>

Parse ==
    /\ pc = "call"
    /\ pc' = "parse_page_range"
    /\ returned' = parse_page_range(call.range_str, call.max_pages)
    /\ UNCHANGED <<call, demo>>

SpecParse == InitParse /\ [][Parse]_vars

\* The comma-separated tokens of the call.
Tokens == split(call.range_str, <<>>)

\* A token that is a single integer, spaces around it aside.
SingleInteger(token) == IsInt(strip(token))

\* A token that is start-end: two integers with a hyphen between them, and
\* nothing else but spaces.
StartEnd(token) ==
    LET part == strip(token)
        d1 == AfterDigits(part, 1)
        s1 == AfterSpaces(part, d1)
        s2 == AfterSpaces(part, s1 + 1)
        d2 == AfterDigits(part, s2)
    IN  /\ d1 > 1
        /\ s1 <= Len(part) /\ part[s1] = "-"
        /\ d2 > s2
        /\ d2 = Len(part) + 1

\* The pages a well-formed token names.
Names(token, page) ==
    LET part == strip(token)
        d1 == AfterDigits(part, 1)
        s2 == AfterSpaces(part, AfterSpaces(part, d1) + 1)
    IN  \/ SingleInteger(token) /\ page = Number(part, 1, Len(part) + 1)
        \/ /\ StartEnd(token)
           /\ Number(part, 1, d1) <= page
           /\ page <= Number(part, s2, Len(part) + 1)

\* C18: the result is strictly ascending, so without duplicates, lies in
\* 0..max_pages-1, and holds page-1 for exactly the pages of 1..max_pages
\* that a single-integer token names or a start-end token covers.
C18_SortedAndExactlyTheNamedPages ==
    pc = "parse_page_range" =>
        /\ \A i \in 1..Len(returned) : \A j \in 1..Len(returned) :
              i < j => returned[i] < returned[j]
        /\ \A i \in 1..Len(returned) : 0 <= returned[i] /\ returned[i] <= call.max_pages - 1
        /\ {returned[i] : i \in 1..Len(returned)} =
               {page - 1 : page \in {q \in 1..call.max_pages :
                                        \E k \in 1..Len(Tokens) : Names(Tokens[k], q)}}

\* The tokens put together again, without token k.
RECURSIVE JoinWithout(_, _, _)
JoinWithout(tokens, k, i) ==
    IF i > Len(tokens) THEN <<>>
    ELSE IF i = k THEN JoinWithout(tokens, k, i + 1)
    ELSE tokens[i] \o <<",">> \o JoinWithout(tokens, k, i + 1)

\* C19: a token that is neither a single integer nor a well-formed start-end
\* range adds no page index to the result: the result is what it is without
\* the token.
C19_MalformedTokenAddsNothing ==
    pc = "parse_page_range" =>
        \A k \in 1..Len(Tokens) :
            ~SingleInteger(Tokens[k]) /\ ~StartEnd(Tokens[k]) =>
                returned = parse_page_range(JoinWithout(Tokens, k, 1), call.max_pages)

=============================================================================
